---- MODULE Spec2Model ----
(***************************************************************************)
(* SiteBlocker (siteblocker.py): a focus-session tool that inserts a       *)
(* delimited block of redirect lines into the hosts file and tracks the    *)
(* session with a lock file holding the start timestamp.                   *)
(*                                                                         *)
(* A Python string is modelled as a sequence of tokens: the newline        *)
(* character, the two marker texts, and atoms of other text.  The hosts    *)
(* file is one such string; read_hosts splits it into lines the way        *)
(* file.readlines() does and write_hosts concatenates the list the way     *)
(* file.writelines() does.                                                 *)
(***************************************************************************)
EXTENDS Integers, Sequences, FiniteSets, TLC

VARIABLES hosts, lock_file, config_file, now, pc, argv, priv, lines, out,
          exitCode, hosts0, frames, hist

vars == <<hosts, lock_file, config_file, now, pc, argv, priv, lines, out,
          exitCode, hosts0, frames, hist>>

----------------------------------------------------------------------------
(* Bounds *)

MaxLines == 3

MaxTime == 1

MaxOps == 2

----------------------------------------------------------------------------
(* Module-level values of siteblocker.py *)

MARKER_START == "# SiteBlocker START"

MARKER_END == "# SiteBlocker END"

NL == "\n"

SP == " "

DEFAULT_REDIRECT_IP == "127.0.0.1"

Procs == {1, 2}

\* Invocations that run one after the other use one process slot.
Sequential == {1}

----------------------------------------------------------------------------
(* Strings and files *)

\* Position of the first newline of s at or after i, or Len(s) if none.
RECURSIVE LineEnd(_, _)
LineEnd(s, i) ==
    IF i >= Len(s) THEN Len(s)
    ELSE IF s[i] = NL THEN i
    ELSE LineEnd(s, i + 1)

\* file.readlines(): the lines of s, each with its terminating newline; the
\* last line has none when s does not end with a newline.
RECURSIVE readlines(_)
readlines(s) ==
    IF s = <<>> THEN <<>>
    ELSE LET e == LineEnd(s, 1)
         IN  <<SubSeq(s, 1, e)>> \o readlines(SubSeq(s, e + 1, Len(s)))

\* file.writelines(lines): the strings written one after the other.
RECURSIVE writelines(_)
writelines(ls) ==
    IF ls = <<>> THEN <<>>
    ELSE Head(ls) \o writelines(Tail(ls))

\* Python's  text in line  for a marker text.
Contains(line, text) == \E i \in 1..Len(line) : line[i] = text

\* Writing data at offset 0 of a file opened earlier: what the file holds
\* beyond the data (written by another writer since the truncation) stays.
Overwrite(f, data) == data \o SubSeq(f, Len(data) + 1, Len(f))

\* dict.get(key, default)
Get(d, key, default) == IF key \in DOMAIN d THEN d[key] ELSE default

----------------------------------------------------------------------------
(* Lock file: timestamp text *)

\* datetime.isoformat(): the text of a timestamp is one timestamp token.
isoformat(t) == <<t>>

\* datetime.fromisoformat(): only a single timestamp token parses.
Parsable(text) == Len(text) = 1

fromisoformat(text) == text[1]

is_active == lock_file.exists

\* Variant: an unparsable lock is read as a session started at time zero.
get_active_duration_epoch ==
    IF ~is_active THEN 0
    ELSE IF Parsable(lock_file.text) THEN now - fromisoformat(lock_file.text)
    ELSE now

\* get_active_duration(): seconds elapsed; zero when the lock is absent or
\* its content does not parse.
get_active_duration ==
    IF ~is_active THEN 0
    ELSE IF Parsable(lock_file.text) THEN now - fromisoformat(lock_file.text)
    ELSE 0

\* The message get_active_duration prints when the parse fails.
DurationLog ==
    IF is_active /\ ~Parsable(lock_file.text)
    THEN <<[msg |-> "Error reading lock file", dur |-> <<>>, n |-> 0]>>
    ELSE <<>>

\* Variant: the minutes are taken from the total, not from the remainder.
format_duration_total_minutes(total_seconds) ==
    LET hours   == total_seconds \div 3600
        minutes == total_seconds \div 60
        seconds == total_seconds % 60
    IN  IF hours > 0
        THEN <<[v |-> hours, u |-> "h"], [v |-> minutes, u |-> "m"],
               [v |-> seconds, u |-> "s"]>>
        ELSE IF minutes > 0
        THEN <<[v |-> minutes, u |-> "m"], [v |-> seconds, u |-> "s"]>>
        ELSE <<[v |-> seconds, u |-> "s"]>>

\* format_duration(): the units shown, most significant first.
format_duration(total_seconds) ==
    LET hours   == total_seconds \div 3600
        minutes == (total_seconds % 3600) \div 60
        seconds == total_seconds % 60
    IN  IF hours > 0
        THEN <<[v |-> hours, u |-> "h"], [v |-> minutes, u |-> "m"],
               [v |-> seconds, u |-> "s"]>>
        ELSE IF minutes > 0
        THEN <<[v |-> minutes, u |-> "m"], [v |-> seconds, u |-> "s"]>>
        ELSE <<[v |-> seconds, u |-> "s"]>>

----------------------------------------------------------------------------
(* Block rewrite *)

RECURSIVE RemoveScan(_, _, _, _)
RemoveScan(ls, i, in_blocker_section, result) ==
    IF i > Len(ls) THEN result
    ELSE IF Contains(ls[i], MARKER_START)
         THEN RemoveScan(ls, i + 1, TRUE, result)
    ELSE IF Contains(ls[i], MARKER_END)
         THEN RemoveScan(ls, i + 1, FALSE, result)
    ELSE IF ~in_blocker_section
         THEN RemoveScan(ls, i + 1, in_blocker_section, Append(result, ls[i]))
    ELSE RemoveScan(ls, i + 1, in_blocker_section, result)

\* Variant: only the first managed block is removed.
RECURSIVE RemoveFirstScan(_, _, _, _)
RemoveFirstScan(ls, i, phase, result) ==
    IF i > Len(ls) THEN result
    ELSE IF phase = 0 /\ Contains(ls[i], MARKER_START)
         THEN RemoveFirstScan(ls, i + 1, 1, result)
    ELSE IF phase < 2 /\ Contains(ls[i], MARKER_END)
         THEN RemoveFirstScan(ls, i + 1, 2, result)
    ELSE IF phase # 1
         THEN RemoveFirstScan(ls, i + 1, phase, Append(result, ls[i]))
    ELSE RemoveFirstScan(ls, i + 1, phase, result)

remove_first_block_only(ls) == RemoveFirstScan(ls, 1, 0, <<>>)

remove_blocker_entries(ls) == RemoveScan(ls, 1, FALSE, <<>>)

\* Variant: the domain lines come out in reverse order.
RECURSIVE DomainLinesReversed(_, _)
DomainLinesReversed(redirect_ip, blocklist) ==
    IF blocklist = <<>> THEN <<>>
    ELSE DomainLinesReversed(redirect_ip, Tail(blocklist))
         \o <<<<redirect_ip, SP, Head(blocklist), NL>>>>

RECURSIVE DomainLines(_, _)
DomainLines(redirect_ip, blocklist) ==
    IF blocklist = <<>> THEN <<>>
    ELSE <<<<redirect_ip, SP, Head(blocklist), NL>>>>
         \o DomainLines(redirect_ip, Tail(blocklist))

add_blocker_entries(ls, config) ==
    LET kept        == remove_blocker_entries(ls)
        redirect_ip == Get(config, "redirect_ip", DEFAULT_REDIRECT_IP)
        blocklist   == Get(config, "blocklist", <<>>)
    IN  kept \o <<<<NL, MARKER_START, NL>>>>
             \o DomainLines(redirect_ip, blocklist)
             \o <<<<MARKER_END, NL>>>>
----------------------------------------------------------------------------
(* Environment: initial files, commands, privileges *)

\* Texts a line of the hosts file may hold before its newline.
LineTexts ==
    { <<"x">>, <<>>, <<MARKER_START>>, <<MARKER_END>> }

TerminatedLines == { t \o <<NL>> : t \in LineTexts }

LineSeqs(n) == UNION { [1..k -> TerminatedLines] : k \in 0..n }

\* Hosts files of at most MaxLines lines; the last line may lack its newline.
Files ==
    { writelines(ls) : ls \in LineSeqs(MaxLines) }
    \cup { writelines(ls) \o t :
             ls \in LineSeqs(MaxLines - 1), t \in LineTexts \ {<<>>} }

Configs ==
    { [redirect_ip |-> "0.0.0.0", blocklist |-> <<"a.com", "b.com">>],
      [blocklist |-> <<"a.com", "a.com">>],
      [redirect_ip |-> "0.0.0.0"] }

NoConfig == [exists |-> FALSE, data |-> [blocklist |-> <<>>]]

NoLock == [exists |-> FALSE, text |-> <<>>]

Commands == {"activate", "deactivate", "status", "run"}

\* sys.argv[1], or "" when no command is given.
Argv == Commands \cup {"", "bogus"}

\* Whether this invocation may read / write the hosts file.
Privs == [r : BOOLEAN, w : BOOLEAN]

Msg(m) == [msg |-> m, dur |-> <<>>, n |-> 0]

MsgDur(m, d) == [msg |-> m, dur |-> format_duration(d), n |-> 0]

MsgN(m, k) == [msg |-> m, dur |-> <<>>, n |-> k]

Emitted(p, m) == \E i \in 1..Len(out[p]) : out[p][i].msg = m

Idle(p) == pc[p] \in {"idle", "exited"}

Init ==
    /\ hosts \in Files
    /\ hosts0 = hosts
    /\ lock_file \in {NoLock, [exists |-> TRUE, text |-> isoformat(0)],
                      [exists |-> TRUE, text |-> <<>>]}
    /\ config_file \in {NoConfig} \cup {[exists |-> TRUE, data |-> c] : c \in Configs}
    /\ now = 0
    /\ pc = [p \in Procs |-> "idle"]
    /\ argv = [p \in Procs |-> ""]
    /\ priv = [p \in Procs |-> [r |-> TRUE, w |-> TRUE]]
    /\ lines = [p \in Procs |-> <<>>]
    /\ out = [p \in Procs |-> <<>>]
    /\ exitCode = [p \in Procs |-> 0]
    /\ frames = [p \in Procs |-> <<>>]
    /\ hist = <<>>

----------------------------------------------------------------------------
(* Steps of one invocation *)

Goto(p, label) == pc' = [pc EXCEPT ![p] = label]

Emit(p, msgs) == out' = [out EXCEPT ![p] = @ \o msgs]

\* sys.exit(code), or main() returning (code 0).  SystemExit raised in a
\* nested signal handler first unwinds the frames it interrupted.
Exit(p, code) ==
    /\ pc' = [pc EXCEPT ![p] = IF frames[p] = <<>> THEN "exited" ELSE "unwind"]
    /\ exitCode' = [exitCode EXCEPT ![p] = code]
    /\ lines' = [lines EXCEPT ![p] = <<>>]

\* main(): construct SiteBlocker (load_config), then dispatch on argv[1].
Dispatch(p, cmd, pr) ==
    /\ argv' = [argv EXCEPT ![p] = cmd]
    /\ priv' = [priv EXCEPT ![p] = pr]
    /\ lines' = [lines EXCEPT ![p] = <<>>]
    /\ IF ~config_file.exists
       THEN /\ out' = [out EXCEPT ![p] = <<Msg("Error: Config file not found")>>]
            /\ pc' = [pc EXCEPT ![p] = "exited"]
            /\ exitCode' = [exitCode EXCEPT ![p] = 1]
       ELSE IF cmd = ""
       THEN /\ out' = [out EXCEPT ![p] = <<Msg("Usage")>>]
            /\ pc' = [pc EXCEPT ![p] = "exited"]
            /\ exitCode' = [exitCode EXCEPT ![p] = 1]
       ELSE IF cmd \in Commands
       THEN /\ out' = [out EXCEPT ![p] = <<>>]
            /\ pc' = [pc EXCEPT ![p] =
                         CASE cmd = "activate"   -> "act_check"
                           [] cmd = "deactivate" -> "deact_check"
                           [] cmd = "status"     -> "status"
                           [] cmd = "run"        -> "run_check"]
            /\ exitCode' = [exitCode EXCEPT ![p] = 0]
       ELSE /\ out' = [out EXCEPT ![p] = <<Msg("Unknown command")>>]
            /\ pc' = [pc EXCEPT ![p] = "exited"]
            /\ exitCode' = [exitCode EXCEPT ![p] = 1]
    /\ UNCHANGED <<hosts, lock_file, config_file, now, hosts0, frames, hist>>

\* An invocation started while no other invocation is running.
Main(p, cmd, pr) ==
    /\ \A q \in Procs : Idle(q)
    /\ Len(hist) < MaxOps
    /\ Dispatch(p, cmd, pr)

\* Variant: activate() goes on to write the lock although already active.
ActCheckReactivates(p) ==
    /\ pc[p] = "act_check"
    /\ Emit(p, <<Msg("Activating SiteBlocker...")>>)
    /\ Goto(p, "act_lock")
    /\ UNCHANGED <<hosts, lock_file, config_file, now, argv, priv, lines,
                   exitCode, hosts0, frames, hist>>

\* activate(), lines 122-127: the already-active early return.
ActCheck(p) ==
    /\ pc[p] = "act_check"
    /\ IF is_active
       THEN /\ Emit(p, DurationLog \o
                        <<MsgDur("SiteBlocker is already active", get_active_duration)>>)
            /\ Goto(p, "run_check")
       ELSE /\ Emit(p, <<Msg("Activating SiteBlocker...")>>)
            /\ Goto(p, "act_lock")
    /\ UNCHANGED <<hosts, lock_file, config_file, now, argv, priv, lines,
                   exitCode, hosts0, frames, hist>>

\* activate(), lines 130-131: create the lock file with the start time.
ActWriteLock(p) ==
    /\ pc[p] = "act_lock"
    /\ lock_file' = [exists |-> TRUE, text |-> isoformat(now)]
    /\ Goto(p, "act_read")
    /\ UNCHANGED <<hosts, config_file, now, argv, priv, lines, out, exitCode,
                   hosts0, frames, hist>>

\* read_hosts(): all lines of the hosts file, or exit 1 without privilege.
ReadHosts(p, next) ==
    /\ IF priv[p].r
       THEN /\ lines' = [lines EXCEPT ![p] = readlines(hosts)]
            /\ Goto(p, next)
            /\ UNCHANGED <<out, exitCode>>
       ELSE /\ Emit(p, <<Msg("Error: Need sudo privileges")>>)
            /\ Exit(p, 1)
    /\ UNCHANGED <<hosts, lock_file, config_file, now, argv, priv, hosts0, frames, hist>>

\* Variant: the file is truncated before the privilege is found missing.
OpenHostsTruncating(p, next, newlines) ==
    /\ hosts' = <<>>
    /\ IF priv[p].w
       THEN /\ lines' = [lines EXCEPT ![p] = newlines]
            /\ Goto(p, next)
            /\ UNCHANGED <<out, exitCode>>
       ELSE /\ Emit(p, <<Msg("Error: Need sudo privileges")>>)
            /\ Exit(p, 1)
    /\ UNCHANGED <<lock_file, config_file, now, argv, priv, hosts0, frames, hist>>

\* write_hosts(newlines), open(HOSTS_FILE, 'w'): truncates the file, or
\* exit 1 without privilege (the file is then untouched).
OpenHosts(p, next, newlines) ==
    /\ IF priv[p].w
       THEN /\ hosts' = <<>>
            /\ lines' = [lines EXCEPT ![p] = newlines]
            /\ Goto(p, next)
            /\ UNCHANGED <<out, exitCode>>
       ELSE /\ Emit(p, <<Msg("Error: Need sudo privileges")>>)
            /\ Exit(p, 1)
            /\ UNCHANGED hosts
    /\ UNCHANGED <<lock_file, config_file, now, argv, priv, hosts0, frames, hist>>

ActRead(p) ==
    /\ pc[p] = "act_read"
    /\ ReadHosts(p, "act_open")

\* activate(), lines 135-136: add_blocker_entries, then write_hosts opens.
ActOpen(p) ==
    /\ pc[p] = "act_open"
    /\ OpenHosts(p, "act_flush", add_blocker_entries(lines[p], config_file.data))

\* write_hosts(), f.writelines(lines) and close; then the prints of
\* activate(), lines 138-140.
ActFlush(p) ==
    /\ pc[p] = "act_flush"
    /\ hosts' = Overwrite(hosts, writelines(lines[p]))
    /\ lines' = [lines EXCEPT ![p] = <<>>]
    /\ Emit(p, <<Msg("SiteBlocker activated!"),
                  MsgN("Blocking", Len(Get(config_file.data, "blocklist", <<>>)))>>)
    /\ hist' = Append(hist, "activated")
    /\ Goto(p, "run_check")
    /\ UNCHANGED <<lock_file, config_file, now, argv, priv, exitCode, hosts0, frames>>

\* Variant: deactivate() rewrites the hosts file although not active.
DeactCheckAlways(p) ==
    /\ pc[p] = "deact_check"
    /\ Emit(p, DurationLog \o
               <<MsgDur("Deactivating SiteBlocker", get_active_duration)>>)
    /\ Goto(p, "deact_read")
    /\ UNCHANGED <<hosts, lock_file, config_file, now, argv, priv, lines,
                   exitCode, hosts0, frames, hist>>

\* Variant: deactivate() removes the lock file before it rewrites the hosts
\* file.
DeactCheckUnlinksFirst(p) ==
    /\ pc[p] = "deact_check"
    /\ IF ~is_active
       THEN /\ Emit(p, <<Msg("SiteBlocker is not active")>>)
            /\ Exit(p, 0)
            /\ UNCHANGED lock_file
       ELSE /\ Emit(p, DurationLog \o
                       <<MsgDur("Deactivating SiteBlocker", get_active_duration)>>)
            /\ lock_file' = NoLock
            /\ Goto(p, "deact_read")
            /\ UNCHANGED <<lines, exitCode>>
    /\ UNCHANGED <<hosts, config_file, now, argv, priv, hosts0, frames, hist>>

\* deactivate(), lines 144-149: the not-active early return.
DeactCheck(p) ==
    /\ pc[p] = "deact_check"
    /\ IF ~is_active
       THEN /\ Emit(p, <<Msg("SiteBlocker is not active")>>)
            /\ Exit(p, 0)
       ELSE /\ Emit(p, DurationLog \o
                       <<MsgDur("Deactivating SiteBlocker", get_active_duration)>>)
            /\ Goto(p, "deact_read")
            /\ UNCHANGED <<lines, exitCode>>
    /\ UNCHANGED <<hosts, lock_file, config_file, now, argv, priv, hosts0, frames, hist>>

DeactRead(p) ==
    /\ pc[p] = "deact_read"
    /\ ReadHosts(p, "deact_open")

\* Variant: deactivate() writes back the lines as read.
DeactOpenKeeping(p) ==
    /\ pc[p] = "deact_open"
    /\ OpenHosts(p, "deact_flush", lines[p])

\* deactivate(), lines 153-154: remove_blocker_entries, then write_hosts opens.
DeactOpen(p) ==
    /\ pc[p] = "deact_open"
    /\ OpenHosts(p, "deact_flush", remove_blocker_entries(lines[p]))

\* write_hosts(), f.writelines(lines) and close.
DeactFlush(p) ==
    /\ pc[p] = "deact_flush"
    /\ hosts' = Overwrite(hosts, writelines(lines[p]))
    /\ lines' = [lines EXCEPT ![p] = <<>>]
    /\ hist' = Append(hist, "deactivated")
    /\ Goto(p, "deact_unlink")
    /\ UNCHANGED <<lock_file, config_file, now, argv, priv, out, exitCode,
                   hosts0, frames>>

\* Variant: deactivate() reports success without removing the lock file.
DeactUnlinkKeepsLock(p) ==
    /\ pc[p] = "deact_unlink"
    /\ Emit(p, <<Msg("SiteBlocker deactivated!")>>)
    /\ Exit(p, 0)
    /\ UNCHANGED <<hosts, lock_file, config_file, now, argv, priv, hosts0, frames, hist>>

\* deactivate(), lines 157-160: remove the lock file; then the caller ends
\* the process (main returns, or the signal handler calls sys.exit(0)).
DeactUnlink(p) ==
    /\ pc[p] = "deact_unlink"
    /\ lock_file' = IF lock_file.exists THEN NoLock ELSE lock_file
    /\ Emit(p, <<Msg("SiteBlocker deactivated!")>>)
    /\ Exit(p, 0)
    /\ UNCHANGED <<hosts, config_file, now, argv, priv, hosts0, frames, hist>>

\* status()
Status(p) ==
    /\ pc[p] = "status"
    /\ IF is_active
       THEN Emit(p, DurationLog \o
                    <<Msg("SiteBlocker is ACTIVE"),
                      MsgDur("Duration", get_active_duration),
                      MsgN("Blocking", Len(Get(config_file.data, "blocklist", <<>>)))>>)
       ELSE Emit(p, <<Msg("SiteBlocker is INACTIVE")>>)
    /\ Exit(p, 0)
    /\ UNCHANGED <<hosts, lock_file, config_file, now, argv, priv, hosts0, frames, hist>>

\* Variant: run_interactive() enters the loop without looking at the lock.
RunCheckAlways(p) ==
    /\ pc[p] = "run_check"
    /\ Goto(p, "run_arm")
    /\ UNCHANGED <<hosts, lock_file, config_file, now, argv, priv, lines, out,
                   exitCode, hosts0, frames, hist>>

\* run_interactive(), lines 175-177: return when not active.
RunCheck(p) ==
    /\ pc[p] = "run_check"
    /\ IF ~is_active
       THEN /\ Emit(p, <<Msg("SiteBlocker is not active. Use 'activate' command first.")>>)
            /\ Exit(p, 0)
       ELSE /\ Goto(p, "run_arm")
            /\ UNCHANGED <<lines, out, exitCode>>
    /\ UNCHANGED <<hosts, lock_file, config_file, now, argv, priv, hosts0, frames, hist>>

\* run_interactive(), lines 184-188: register the handlers, enter the loop.
RunArm(p) ==
    /\ pc[p] = "run_arm"
    /\ Emit(p, <<Msg("SiteBlocker is active. Timer running...")>>)
    /\ Goto(p, "loop")
    /\ UNCHANGED <<hosts, lock_file, config_file, now, argv, priv, lines,
                   exitCode, hosts0, frames, hist>>

\* The timer line is written with "\r" and no newline: it replaces a timer
\* line that is still the last thing on the terminal.
ShowTimer(o, m) ==
    IF o # <<>> /\ o[Len(o)].msg = "Active for"
    THEN [o EXCEPT ![Len(o)] = m]
    ELSE Append(o, m)

\* One iteration of the loop, lines 192-195: show the duration, sleep(1).
LoopIter(p) ==
    /\ pc[p] = "loop"
    /\ now < MaxTime
    /\ out' = [out EXCEPT ![p] =
                 ShowTimer(@ \o DurationLog, MsgDur("Active for", get_active_duration))]
    /\ now' = now + 1
    /\ UNCHANGED <<hosts, lock_file, config_file, pc, argv, priv, lines,
                   exitCode, hosts0, frames, hist>>

\* Variant: the handler exits without calling deactivate().
InterruptNoCleanup(p) ==
    /\ pc[p] = "loop"
    /\ Emit(p, <<Msg("Deactivating...")>>)
    /\ Exit(p, 0)
    /\ UNCHANGED <<hosts, lock_file, config_file, now, argv, priv, hosts0, frames, hist>>

\* SIGINT or SIGTERM during the loop: signal_handler starts deactivate().
Interrupt(p) ==
    /\ pc[p] = "loop"
    /\ Emit(p, <<Msg("Deactivating...")>>)
    /\ Goto(p, "deact_check")
    /\ UNCHANGED <<hosts, lock_file, config_file, now, argv, priv, lines,
                   exitCode, hosts0, frames, hist>>

\* Time passing between invocations.
Tick ==
    /\ \A q \in Procs : Idle(q)
    /\ now < MaxTime
    /\ now' = now + 1
    /\ UNCHANGED <<hosts, lock_file, config_file, pc, argv, priv, lines, out,
                   exitCode, hosts0, frames, hist>>

Step(p) ==
    \/ \E cmd \in Argv, pr \in Privs : Main(p, cmd, pr)
    \/ ActCheck(p)
    \/ ActWriteLock(p)
    \/ ActRead(p)
    \/ ActOpen(p)
    \/ ActFlush(p)
    \/ DeactCheck(p)
    \/ DeactRead(p)
    \/ DeactOpen(p)
    \/ DeactFlush(p)
    \/ DeactUnlink(p)
    \/ Status(p)
    \/ RunCheck(p)
    \/ RunArm(p)
    \/ LoopIter(p)
    \/ Interrupt(p)

Next == (\E p \in Sequential : Step(p)) \/ Tick

Spec == Init /\ [][Next]_vars

\* Invocations started from a clean state: no lock file, no marker text.
InitClean ==
    /\ Init
    /\ ~lock_file.exists
    /\ \A i \in 1..Len(hosts) : hosts[i] \notin {MARKER_START, MARKER_END}

SpecClean == InitClean /\ [][Next]_vars

\* The statements a started process executes by itself: everything except
\* the start of an invocation, the sleeping loop and the signal.
ProgramStep(p) ==
    \/ ActCheck(p) \/ ActWriteLock(p) \/ ActRead(p) \/ ActOpen(p) \/ ActFlush(p)
    \/ DeactCheck(p) \/ DeactRead(p) \/ DeactOpen(p) \/ DeactFlush(p)
    \/ DeactUnlink(p) \/ Status(p) \/ RunCheck(p) \/ RunArm(p)

\* Hosts files of a session: empty, plain, with a managed block, and with a
\* stale unterminated block.
SessionFiles ==
    { <<>>, <<"x", NL>>,
      <<"x", NL, MARKER_START, NL, MARKER_END, NL>>,
      <<MARKER_START, NL, "x">> }

InitSession == Init /\ hosts \in SessionFiles

\* A running process is never suspended for ever (single-threaded,
\* synchronous I/O).
FairSpec ==
    InitSession /\ [][Next]_vars /\ \A p \in Sequential : WF_vars(ProgramStep(p))

----------------------------------------------------------------------------
(* Vocabulary of the properties *)

StartLines(f) ==
    Cardinality({i \in 1..Len(readlines(f)) : Contains(readlines(f)[i], MARKER_START)})

EndLines(f) ==
    Cardinality({i \in 1..Len(readlines(f)) : Contains(readlines(f)[i], MARKER_END)})

HasManagedBlock(f) == StartLines(f) > 0

NoMarkerText(f) == StartLines(f) = 0 /\ EndLines(f) = 0

AllIdle == \A p \in Procs : Idle(p)

\* Nobody is between the truncation and the write of the hosts file.
NoWriteInProgress == \A p \in Procs : pc[p] \notin {"act_flush", "deact_flush"}

Interrupted(p) == Emitted(p, "Deactivating...")

PrivilegeError(p) == Emitted(p, "Error: Need sudo privileges")

BadLock == lock_file.exists /\ ~Parsable(lock_file.text)

Moves(p) == pc'[p] # pc[p]

----------------------------------------------------------------------------
(* C1 *)

\* C1 (as stated): once a process has exited after an interrupt of its
\* foreground loop, the lock file is absent and the hosts file holds no
\* managed block.
C1_InterruptAlwaysClean ==
    \A p \in Procs :
        (pc[p] = "exited" /\ Interrupted(p))
            => (~lock_file.exists /\ ~HasManagedBlock(hosts))

\* C1 (amended): a process that has exited after an interrupt of its
\* foreground loop either could read and write the hosts file, and then it
\* exited with status 0, the lock file absent and no marker text in the hosts
\* file; or it lacked that privilege, and then it exited with status 1 and the
\* lock file still present.  An interrupted process always goes on to exit.
C1_InterruptCleanup ==
    /\ [](\A p \in Procs :
             (pc[p] = "exited" /\ Interrupted(p))
                 => IF priv[p].r /\ priv[p].w
                    THEN /\ exitCode[p] = 0
                         /\ ~lock_file.exists
                         /\ NoMarkerText(hosts)
                    ELSE /\ exitCode[p] = 1
                         /\ PrivilegeError(p)
                         /\ lock_file.exists)
    /\ \A p \in Procs :
          (pc[p] = "deact_check" /\ Interrupted(p)) ~> (pc[p] = "exited")

C1_Witness ==
    \E p \in Procs :
        /\ pc[p] = "exited"
        /\ Interrupted(p)
        /\ Emitted(p, "SiteBlocker deactivated!")
        /\ argv[p] = "activate"
        /\ hist = <<"activated", "deactivated">>

----------------------------------------------------------------------------
(* C2 *)

\* C2: started from a clean state, whenever no command is executing the lock
\* file exists if and only if the hosts file contains the managed block.
C2_MarkerIffBlock ==
    AllIdle => (lock_file.exists <=> HasManagedBlock(hosts))

----------------------------------------------------------------------------
(* C3 *)

\* C3: an activate() call that finds the lock file present returns at once,
\* reporting the elapsed duration, and leaves the hosts file and the lock
\* file (its timestamp included) as they were.
C3_ActivateIdempotent ==
    [][\A p \in Procs :
          (pc[p] = "act_check" /\ lock_file.exists /\ Moves(p))
              => /\ hosts' = hosts
                 /\ lock_file' = lock_file
                 /\ hist' = hist
                 /\ pc'[p] = "run_check"
                 /\ out'[p][Len(out'[p])].msg = "SiteBlocker is already active"]_vars

C3_Witness ==
    \E p \in Procs :
        /\ pc[p] = "run_check"
        /\ Emitted(p, "SiteBlocker is already active")
        /\ lock_file.text = isoformat(0)
        /\ now = 1
        /\ StartLines(hosts) = 1

----------------------------------------------------------------------------
(* C4 *)

\* C4: a deactivate() call that finds the lock file absent returns at once
\* and leaves the hosts file, whatever it holds, and the absent lock file as
\* they were.
C4_DeactivateIdempotent ==
    [][\A p \in Procs :
          (pc[p] = "deact_check" /\ ~lock_file.exists /\ Moves(p))
              => /\ hosts' = hosts
                 /\ lock_file' = lock_file
                 /\ hist' = hist
                 /\ pc'[p] = "exited"
                 /\ exitCode'[p] = 0]_vars

C4_Witness ==
    \E p \in Procs :
        /\ pc[p] = "exited"
        /\ argv[p] = "deactivate"
        /\ Emitted(p, "SiteBlocker is not active")
        /\ ~lock_file.exists
        /\ HasManagedBlock(hosts)

----------------------------------------------------------------------------
(* C5 *)

\* C5: once the hosts file has been rewritten, it holds exactly one start
\* marker line and one end marker line if the last rewrite was an activation
\* and no marker line if it was a deactivation.
C5_AtMostOneBlock ==
    (hist # <<>> /\ NoWriteInProgress)
        => IF hist[Len(hist)] = "activated"
           THEN StartLines(hosts) = 1 /\ EndLines(hosts) = 1
           ELSE StartLines(hosts) = 0 /\ EndLines(hosts) = 0

C5_Witness ==
    /\ hist = <<"activated">>
    /\ NoWriteInProgress
    /\ StartLines(hosts0) >= 2
    /\ EndLines(hosts0) >= 1
    /\ StartLines(hosts) = 1

----------------------------------------------------------------------------
(* C6 *)

\* C6: after a successful activation the hosts file ends with the start
\* marker line, then one line "<redirect address> <domain>" per configured
\* domain in configured order (the address being 127.0.0.1 when the
\* configuration has none), then the end marker line.
C6_GeneratedBlock ==
    (hist # <<>> /\ hist[Len(hist)] = "activated" /\ NoWriteInProgress)
        => LET ls        == readlines(hosts)
               blocklist == IF "blocklist" \in DOMAIN config_file.data
                            THEN config_file.data.blocklist ELSE <<>>
               address   == IF "redirect_ip" \in DOMAIN config_file.data
                            THEN config_file.data.redirect_ip ELSE "127.0.0.1"
               N         == Len(blocklist)
               first     == Len(ls) - N - 1
           IN  /\ first >= 1
               /\ ls[first] = <<MARKER_START, NL>>
               /\ \A i \in 1..N : ls[first + i] = <<address, SP, blocklist[i], NL>>
               /\ ls[Len(ls)] = <<MARKER_END, NL>>

C6_Witness ==
    /\ hist = <<"activated">>
    /\ NoWriteInProgress
    /\ config_file.data = [redirect_ip |-> "0.0.0.0", blocklist |-> <<"a.com", "b.com">>]
    /\ Len(readlines(hosts)) = Len(readlines(hosts0)) + 5
    /\ \E p \in Procs : pc[p] = "loop"

----------------------------------------------------------------------------
(* C7 *)

IsMarkerLine(line) == Contains(line, MARKER_START) \/ Contains(line, MARKER_END)

\* Line i of ls lies outside every managed block: it is no marker line and
\* the nearest marker line before it, if any, is an end marker line.
OutsideBlocks(ls, i) ==
    /\ ~IsMarkerLine(ls[i])
    /\ LET before == {j \in 1..(i - 1) : IsMarkerLine(ls[j])}
       IN  \/ before = {}
           \/ LET last == CHOOSE j \in before : \A k \in before : k <= j
              IN  ~Contains(ls[last], MARKER_START)

RECURSIVE KeepOutside(_, _)
KeepOutside(ls, i) ==
    IF i > Len(ls) THEN <<>>
    ELSE (IF OutsideBlocks(ls, i) THEN ls[i] ELSE <<>>) \o KeepOutside(ls, i + 1)

\* The content f with all managed-block text removed.
ManagedTextRemoved(f) == KeepOutside(readlines(f), 1)

----------------------------------------------------------------------------
(* C8 *)

ScenarioConfig == [redirect_ip |-> "0.0.0.0", blocklist |-> <<"a.com", "b.com">>]

\* C8: with the scenario configuration and an empty hosts file, activation
\* makes the hosts file the five lines (blank, start marker, "0.0.0.0 a.com",
\* "0.0.0.0 b.com", end marker) with the lock file present, and the following
\* deactivation leaves the hosts file empty and the lock file absent.
C8_EmptyResourceScenario ==
    (config_file.data = ScenarioConfig /\ hosts0 = <<>> /\ NoWriteInProgress)
        => /\ (hist = <<"activated">>)
                 => /\ readlines(hosts) =
                          << <<NL>>, <<MARKER_START, NL>>,
                             <<"0.0.0.0", SP, "a.com", NL>>,
                             <<"0.0.0.0", SP, "b.com", NL>>,
                             <<MARKER_END, NL>> >>
                    /\ lock_file.exists
           /\ (hist = <<"activated", "deactivated">> /\ AllIdle)
                 => /\ hosts = <<>>
                    /\ ~lock_file.exists

----------------------------------------------------------------------------
(* C9 *)

\* C9: in activate() and deactivate() no step up to the opening of the hosts
\* file for writing changes the hosts file; a read without privilege and an
\* opening without privilege each end the process at once with a non-zero
\* status, with the hosts file as it was.
C9_PrivilegeFailure ==
    [][\A p \in Procs :
          /\ (pc[p] \in {"act_check", "act_lock", "act_read",
                         "deact_check", "deact_read"} /\ Moves(p))
                => hosts' = hosts
          /\ (pc[p] \in {"act_read", "deact_read"} /\ ~priv[p].r /\ Moves(p))
                => /\ pc'[p] = "exited"
                   /\ exitCode'[p] # 0
          /\ (pc[p] \in {"act_open", "deact_open"} /\ ~priv[p].w /\ Moves(p))
                => /\ pc'[p] = "exited"
                   /\ exitCode'[p] # 0
                   /\ hosts' = hosts]_vars

C9_Witness ==
    \E p \in Procs :
        /\ pc[p] = "exited"
        /\ exitCode[p] = 1
        /\ PrivilegeError(p)
        /\ priv[p].r
        /\ ~priv[p].w
        /\ argv[p] = "deactivate"
        /\ hosts = hosts0
        /\ HasManagedBlock(hosts)

----------------------------------------------------------------------------
(* C10 *)

ZeroDuration == <<[v |-> 0, u |-> "s"]>>

Reported(o, m, d) == \E i \in 1..Len(o) : o[i].msg = m /\ o[i].dur = d

\* C10: while the lock file exists with unparsable content, status reports
\* ACTIVE with a zero duration and exits 0, activate() is the already-active
\* no-op, and deactivate() goes on to the rewrite, each reporting a zero
\* duration; a command that logged the parse failure exits non-zero only on
\* a privilege error, and once its deactivate() has finished the lock file
\* is absent and the hosts file holds no marker text.
C10_MalformedMarker ==
    /\ [][\A p \in Procs :
             (BadLock /\ Moves(p)) =>
                 /\ (pc[p] = "status")
                       => /\ pc'[p] = "exited"
                          /\ exitCode'[p] = 0
                          /\ Emitted(p, "SiteBlocker is ACTIVE")'
                          /\ Reported(out'[p], "Duration", ZeroDuration)
                          /\ UNCHANGED <<hosts, lock_file>>
                 /\ (pc[p] = "act_check")
                       => /\ pc'[p] = "run_check"
                          /\ Reported(out'[p], "SiteBlocker is already active", ZeroDuration)
                          /\ UNCHANGED <<hosts, lock_file>>
                 /\ (pc[p] = "deact_check")
                       => /\ pc'[p] = "deact_read"
                          /\ Reported(out'[p], "Deactivating SiteBlocker", ZeroDuration)
                 /\ (pc[p] = "loop" /\ pc'[p] = "loop" /\ out'[p] # out[p])
                       => Reported(out'[p], "Active for", ZeroDuration)]_vars
    /\ [](\A p \in Procs :
             (pc[p] = "exited" /\ Emitted(p, "Error reading lock file"))
                 => /\ exitCode[p] # 0 => PrivilegeError(p)
                    /\ Emitted(p, "SiteBlocker deactivated!")
                          => (~lock_file.exists /\ NoMarkerText(hosts)))

C10_Witness ==
    \E p \in Procs :
        /\ pc[p] = "exited"
        /\ argv[p] = "deactivate"
        /\ Emitted(p, "Error reading lock file")
        /\ Emitted(p, "SiteBlocker deactivated!")
        /\ now = 1
        /\ HasManagedBlock(hosts0)

----------------------------------------------------------------------------
(* C11 *)

\* C11: the status command, in any state, and the run command, when the lock
\* file is absent, leave the lock file and the hosts file as they are from
\* the start of the process to its exit; run with the lock file absent exits
\* with its guidance message without entering the loop.
C11_ReadOnlyCommands ==
    [][\A p \in Procs :
          Moves(p) =>
              /\ (argv'[p] = "status" \/ (argv'[p] = "run" /\ ~lock_file.exists))
                    => UNCHANGED <<hosts, lock_file>>
              /\ (pc[p] = "status") => pc'[p] = "exited"
              /\ (pc[p] = "run_check" /\ ~lock_file.exists)
                    => /\ pc'[p] = "exited"
                       /\ exitCode'[p] = 0
                       /\ Emitted(p, "SiteBlocker is not active. Use 'activate' command first.")']_vars

C11_Witness ==
    \E p \in Procs :
        /\ pc[p] = "exited"
        /\ argv[p] = "run"
        /\ Emitted(p, "SiteBlocker is not active. Use 'activate' command first.")
        /\ ~lock_file.exists
        /\ HasManagedBlock(hosts)

----------------------------------------------------------------------------
(* C12 *)

MaxInlineLines == 2

\* Lines of a hosts file, among them lines that hold a marker text after
\* other text.
InlineLines ==
    { <<"x", NL>>, <<MARKER_START, NL>>, <<MARKER_END, NL>>,
      <<"x", MARKER_START, NL>>, <<"x", MARKER_END, NL>> }

InlineFiles ==
    { writelines(ls) : ls \in UNION { [1..k -> InlineLines] : k \in 0..MaxInlineLines } }

InitInline ==
    /\ hosts \in InlineFiles
    /\ hosts0 = hosts
    /\ lock_file \in {NoLock, [exists |-> TRUE, text |-> isoformat(0)]}
    /\ config_file \in {[exists |-> TRUE, data |-> c] : c \in Configs}
    /\ now = 0
    /\ pc = [p \in Procs |-> "idle"]
    /\ argv = [p \in Procs |-> ""]
    /\ priv = [p \in Procs |-> [r |-> TRUE, w |-> TRUE]]
    /\ lines = [p \in Procs |-> <<>>]
    /\ out = [p \in Procs |-> <<>>]
    /\ exitCode = [p \in Procs |-> 0]
    /\ frames = [p \in Procs |-> <<>>]
    /\ hist = <<>>

SpecInline == InitInline /\ [][Next]_vars

\* The line is the marker text and nothing else (but its newline).
IsExactly(line, text) == line = <<text, NL>> \/ line = <<text>>

\* The removal with exact marker matching.
RECURSIVE ExactScan(_, _, _, _)
ExactScan(ls, i, inside, result) ==
    IF i > Len(ls) THEN result
    ELSE IF IsExactly(ls[i], MARKER_START) THEN ExactScan(ls, i + 1, TRUE, result)
    ELSE IF IsExactly(ls[i], MARKER_END) THEN ExactScan(ls, i + 1, FALSE, result)
    ELSE IF ~inside THEN ExactScan(ls, i + 1, inside, Append(result, ls[i]))
    ELSE ExactScan(ls, i + 1, inside, result)

\* C12: the lines deactivate() is about to write are the lines read with the
\* managed blocks removed by exact marker matching: only a line that is
\* exactly a marker text switches the scan and is dropped, and a line outside
\* a block that merely contains a marker text is kept.
C12_ExactMarkerMatching ==
    \A p \in Procs :
        (pc[p] = "deact_flush" /\ hist = <<>>)
            => lines[p] = ExactScan(readlines(hosts0), 1, FALSE, <<>>)

----------------------------------------------------------------------------
(* C13 *)

\* C13: a process that has exited has a non-zero status exactly when the
\* configuration file is missing, a privilege error on the hosts file was
\* met, or no command or an unknown command was given, and in that last case
\* the usage help was printed; a process that exits without reaching a
\* command leaves the lock file and the hosts file as they were.
C13_ExitStatus ==
    /\ [](\A p \in Procs :
             pc[p] = "exited" =>
                 /\ exitCode[p] # 0
                       <=> \/ ~config_file.exists
                           \/ PrivilegeError(p)
                           \/ argv[p] \notin Commands
                 /\ (config_file.exists /\ argv[p] \notin Commands)
                       => Emitted(p, "Usage"))
    /\ [][\A p \in Procs :
             (Idle(p) /\ pc'[p] = "exited" /\ Moves(p))
                 => UNCHANGED <<hosts, lock_file>>]_vars

----------------------------------------------------------------------------
(* C14 *)

MaxSeconds == 3725

\* A session started at time 0 and queried after any number of seconds.
InitFormat ==
    /\ hosts = <<>>
    /\ hosts0 = hosts
    /\ lock_file = [exists |-> TRUE, text |-> isoformat(0)]
    /\ config_file = [exists |-> TRUE, data |-> [blocklist |-> <<"a.com", "a.com">>]]
    /\ now \in 0..MaxSeconds
    /\ pc = [p \in Procs |-> "idle"]
    /\ argv = [p \in Procs |-> ""]
    /\ priv = [p \in Procs |-> [r |-> TRUE, w |-> TRUE]]
    /\ lines = [p \in Procs |-> <<>>]
    /\ out = [p \in Procs |-> <<>>]
    /\ exitCode = [p \in Procs |-> 0]
    /\ frames = [p \in Procs |-> <<>>]
    /\ hist = <<>>

NextFormat ==
    \E p \in Sequential :
        \/ Main(p, "status", [r |-> TRUE, w |-> TRUE])
        \/ Status(p)

SpecFormat == InitFormat /\ [][NextFormat]_vars

UnitSeconds(u) == CASE u = "h" -> 3600 [] u = "m" -> 60 [] u = "s" -> 1

RECURSIVE TotalSeconds(_)
TotalSeconds(r) ==
    IF r = <<>> THEN 0 ELSE Head(r).v * UnitSeconds(Head(r).u) + TotalSeconds(Tail(r))

\* r renders t: the units are the last Len(r) of h, m, s; the values add up
\* to t; minutes and seconds are below 60; and the leading unit is not zero
\* unless it is the seconds.
Renders(r, t) ==
    /\ Len(r) \in 1..3
    /\ \A i \in 1..Len(r) : r[i].u = <<"h", "m", "s">>[i + 3 - Len(r)]
    /\ TotalSeconds(r) = t
    /\ \A i \in 1..Len(r) : r[i].u # "h" => r[i].v \in 0..59
    /\ Len(r) > 1 => r[1].v > 0

\* C14: the duration that status shows for t elapsed seconds renders t with
\* hours, minutes and seconds when there is at least an hour, with minutes
\* and seconds when there is at least a minute, and with seconds otherwise;
\* 45 is shown as "45s", 125 as "2m 5s" and 3725 as "1h 2m 5s".
C14_DurationFormat ==
    \A p \in Procs :
        (pc[p] = "exited" /\ argv[p] = "status")
            => \E i \in 1..Len(out[p]) :
                  /\ out[p][i].msg = "Duration"
                  /\ Renders(out[p][i].dur, now)
                  /\ now = 45 => out[p][i].dur = <<[v |-> 45, u |-> "s"]>>
                  /\ now = 125 => out[p][i].dur = <<[v |-> 2, u |-> "m"], [v |-> 5, u |-> "s"]>>
                  /\ now = 3725 => out[p][i].dur = <<[v |-> 1, u |-> "h"], [v |-> 2, u |-> "m"],
                                                     [v |-> 5, u |-> "s"]>>

C14_Witness ==
    \E p \in Procs :
        /\ pc[p] = "exited"
        /\ argv[p] = "status"
        /\ now = 3725
        /\ Reported(out[p], "Duration",
                    <<[v |-> 1, u |-> "h"], [v |-> 2, u |-> "m"], [v |-> 5, u |-> "s"]>>)

----------------------------------------------------------------------------
(* C15 *)

MaxNesting == 1

\* A further SIGINT or SIGTERM while signal_handler is running deactivate():
\* Python runs the handler again on top of the interrupted frame, which keeps
\* its position and its local lines.
NestedInterrupt(p) ==
    /\ pc[p] \in {"deact_check", "deact_read", "deact_open", "deact_flush",
                  "deact_unlink"}
    /\ Emitted(p, "Deactivating...")
    /\ Len(frames[p]) < MaxNesting
    /\ frames' = [frames EXCEPT ![p] = Append(@, [pc |-> pc[p], lines |-> lines[p]])]
    /\ lines' = [lines EXCEPT ![p] = <<>>]
    /\ Emit(p, <<Msg("Deactivating...")>>)
    /\ Goto(p, "deact_check")
    /\ UNCHANGED <<hosts, lock_file, config_file, now, argv, priv, exitCode,
                   hosts0, hist>>

\* SystemExit leaving an interrupted frame.  A frame interrupted inside the
\* with block of write_hosts closes its file: what writelines had buffered is
\* then written at offset 0, and nothing if the interrupt came before
\* writelines.
Unwind(p) ==
    /\ pc[p] = "unwind"
    /\ LET f == frames[p][Len(frames[p])]
       IN  IF f.pc = "deact_flush"
           THEN \E buffered \in BOOLEAN :
                  hosts' = IF buffered THEN Overwrite(hosts, writelines(f.lines))
                           ELSE hosts
           ELSE hosts' = hosts
    /\ frames' = [frames EXCEPT ![p] = SubSeq(@, 1, Len(@) - 1)]
    /\ Goto(p, IF Len(frames[p]) = 1 THEN "exited" ELSE "unwind")
    /\ UNCHANGED <<lock_file, config_file, now, argv, priv, lines, out, exitCode,
                   hosts0, hist>>

NextReentrant ==
    \/ Next
    \/ \E p \in Sequential : NestedInterrupt(p) \/ Unwind(p)

SpecReentrant == InitSession /\ [][NextReentrant]_vars

IsPrefix(a, b) == Len(a) <= Len(b) /\ SubSeq(b, 1, Len(a)) = a

InterruptedTwice(p) ==
    Cardinality({i \in 1..Len(out[p]) : out[p][i].msg = "Deactivating..."}) >= 2

\* C15: a process that may read and write the hosts file and has exited after
\* a second interrupt arrived during the deactivation started by the first
\* has left the lock file absent and the hosts file with no marker text and
\* with every line that was outside the managed blocks.
C15_ReentrantInterrupt ==
    \A p \in Procs :
        (pc[p] = "exited" /\ InterruptedTwice(p) /\ priv[p].r /\ priv[p].w)
            => /\ ~lock_file.exists
               /\ NoMarkerText(hosts)
               /\ IsPrefix(ManagedTextRemoved(hosts0), hosts)

----------------------------------------------------------------------------
(* C16 *)

\* What the hosts file may hold when a process stops at its current
\* position: inside write_hosts, any part of the data may have reached the
\* file (nothing when it is all still buffered, all of it when the file is
\* closed on the way out).
StoppedFiles(p) ==
    IF pc[p] \in {"act_flush", "deact_flush"}
    THEN LET data == writelines(lines[p])
         IN  { Overwrite(hosts, SubSeq(data, 1, k)) : k \in 0..Len(data) }
    ELSE {hosts}

Stop(p, code, m) ==
    /\ \E f \in StoppedFiles(p) : hosts' = f
    /\ Emit(p, <<Msg(m)>>)
    /\ pc' = [pc EXCEPT ![p] = "exited"]
    /\ exitCode' = [exitCode EXCEPT ![p] = code]
    /\ lines' = [lines EXCEPT ![p] = <<>>]
    /\ UNCHANGED <<lock_file, config_file, now, argv, priv, hosts0, frames, hist>>

\* SIGKILL at any point of a process.
Kill(p) ==
    /\ pc[p] \notin {"idle", "exited", "unwind"}
    /\ Stop(p, 137, "Killed")

\* SIGINT or SIGTERM while no handler is registered, that is anywhere before
\* lines 184-185 have run: KeyboardInterrupt is raised outside the try block
\* (or the default action of SIGTERM is taken) and the process ends.
EarlyInterrupt(p) ==
    /\ pc[p] \notin {"idle", "exited", "unwind", "loop"}
    /\ ~Emitted(p, "Deactivating...")
    /\ Stop(p, 130, "KeyboardInterrupt")

NextKill ==
    \/ Next
    \/ \E p \in Sequential : Kill(p) \/ EarlyInterrupt(p)

\* A clean session: no lock file, no marker text in the hosts file.
InitCleanSession == InitClean /\ hosts \in SessionFiles

SpecKill == InitCleanSession /\ [][NextKill]_vars

\* C16: with one invocation at a time, started from a clean state, in every
\* state, also inside a command and after a command was aborted or killed
\* part-way, marker text in the hosts file implies that the lock file exists.
C16_BlockImpliesMarker ==
    ~NoMarkerText(hosts) => lock_file.exists

C16_Witness ==
    \E p \in Procs :
        /\ pc[p] = "exited"
        /\ exitCode[p] = 137
        /\ argv[p] = "activate"
        /\ HasManagedBlock(hosts)
        /\ EndLines(hosts) = 0
        /\ lock_file.exists

----------------------------------------------------------------------------
(* C17 *)

\* C17: started from a clean state, whenever an activate command is in the
\* foreground loop, or a status command has reported ACTIVE, the hosts file
\* contains the managed block; in particular after an activate that aborted
\* on a privilege error and a later activate run with sufficient privilege.
C17_RecoveryAfterFailedActivate ==
    \A p \in Procs :
        (\/ pc[p] = "loop" /\ argv[p] = "activate"
         \/ pc[p] = "exited" /\ argv[p] = "status" /\ Emitted(p, "SiteBlocker is ACTIVE"))
            => HasManagedBlock(hosts)

----------------------------------------------------------------------------
(* C18 *)

\* The hosts file before the race: plain (shorter or longer than a managed
\* block), or holding the block of a session.
RaceFiles ==
    { <<"x", NL>>, <<"x", NL, "x", NL, "x", NL>>,
      <<"x", NL, MARKER_START, NL, MARKER_END, NL>> }

\* A consistent state: the lock file exists exactly when the block is there.
InitRace ==
    /\ Init
    /\ hosts \in RaceFiles
    /\ config_file.exists
    /\ lock_file.exists <=> HasManagedBlock(hosts)

RaceCommands == {"activate", "deactivate"}

\* An invocation started whatever the other process is doing: an activate
\* next to a deactivate, or two activates, each with sufficient privilege.
Start(p, cmd) ==
    /\ pc[p] = "idle"
    /\ cmd \in RaceCommands
    /\ \A q \in Procs \ {p} : ~(cmd = "deactivate" /\ argv[q] = "deactivate")
    /\ Dispatch(p, cmd, [r |-> TRUE, w |-> TRUE])

RaceStep(p) ==
    \/ \E cmd \in RaceCommands : Start(p, cmd)
    \/ ActCheck(p)
    \/ ActWriteLock(p)
    \/ ActRead(p)
    \/ ActOpen(p)
    \/ ActFlush(p)
    \/ DeactCheck(p)
    \/ DeactRead(p)
    \/ DeactOpen(p)
    \/ DeactFlush(p)
    \/ DeactUnlink(p)
    \/ RunCheck(p)
    \/ RunArm(p)

NextRace == \E p \in Procs : RaceStep(p)

SpecRace == InitRace /\ [][NextRace]_vars

\* activate() or deactivate() has returned and the command is in the
\* foreground loop or has exited.
Finished(p) == pc[p] \in {"loop", "exited"}

BothFinished == \A p \in Procs : Finished(p)

RECURSIVE LinesOf(_, _)
LinesOf(ls, i) == IF i > Len(ls) THEN {} ELSE {ls[i]} \cup LinesOf(ls, i + 1)

\* Every line of the original content outside its managed blocks is still
\* a line of the hosts file.
OriginalLinesKept ==
    LET orig == readlines(hosts0)
    IN  \A i \in 1..Len(orig) :
            OutsideBlocks(orig, i) => orig[i] \in LinesOf(readlines(hosts), 1)

----------------------------------------------------------------------------
(* C19 *)

MaxCycleOps == 4

\* One command after the other, each with sufficient privilege, for up to
\* MaxCycleOps rewrites of the hosts file.
StartCycle(p, cmd) ==
    /\ AllIdle
    /\ Len(hist) < MaxCycleOps
    /\ Dispatch(p, cmd, [r |-> TRUE, w |-> TRUE])

CycleStep(p) ==
    \/ \E cmd \in RaceCommands : StartCycle(p, cmd)
    \/ ActCheck(p)
    \/ ActWriteLock(p)
    \/ ActRead(p)
    \/ ActOpen(p)
    \/ ActFlush(p)
    \/ RunCheck(p)
    \/ RunArm(p)
    \/ Interrupt(p)
    \/ DeactCheck(p)
    \/ DeactRead(p)
    \/ DeactOpen(p)
    \/ DeactFlush(p)
    \/ DeactUnlink(p)

NextCycles == \E p \in Sequential : CycleStep(p)

SpecCycles == InitCleanSession /\ [][NextCycles]_vars

\* The hosts file f after one activation and one deactivation.
OneCycle(f, config) ==
    writelines(remove_blocker_entries(
        readlines(writelines(add_blocker_entries(readlines(f), config)))))

\* C19: starting from a hosts file C without managed blocks, after every
\* deactivation that follows an activation (the first, the second, ...) the
\* hosts file is what it was after the first one: the blank separator lines
\* left behind do not add up.
C19_NoGrowth ==
    (AllIdle /\ config_file.exists /\ hist # <<>> /\ hist[Len(hist)] = "deactivated")
        => hosts = OneCycle(hosts0, config_file.data)

----------------------------------------------------------------------------
(* C20 *)

\* C20: an activate command with sufficient privilege that has begun to
\* activate and then ends on an interrupt, delivered before or after the
\* handlers were registered, has run the deactivation: it never exits with
\* the lock file present or a managed block in the hosts file.
C20_InterruptBeforeLoop ==
    \A p \in Procs :
        (/\ pc[p] = "exited"
         /\ argv[p] = "activate"
         /\ priv[p].r /\ priv[p].w
         /\ Emitted(p, "Activating SiteBlocker...")
         /\ Emitted(p, "KeyboardInterrupt") \/ Interrupted(p))
            => /\ ~lock_file.exists
               /\ ~HasManagedBlock(hosts)

====
